---- MODULE Spec2Model ----
(***************************************************************************)
(* Model of utils/services/api_client.py: send_request and retry_request   *)
(* run as coroutines ("call chains") on one asyncio event loop.            *)
(*                                                                         *)
(* Time is counted in grid units of 1/JitterGrid second.  A chain holds    *)
(* the event-loop thread (running = c) from the moment it is scheduled     *)
(* until it suspends in asyncio.sleep or returns; time.sleep and the       *)
(* synchronous curl_cffi session calls keep the thread.                    *)
(***************************************************************************)
EXTENDS Integers, Sequences, FiniteSets, TLC

\* ---------------------------------------------------------------- bounds
MaxRetries == 3
MaxRetriesConc == 2
MaxRetryCount == 6
JitterGrid == 2

\* ------------------------------------------------------ program constants
DefaultMaxRetries == 3
BaseDelay == 1
BackoffCap == 30
DefaultRetryAfter == 5
CooldownMin == 5
CooldownMax == 10

Chains == {1, 2}
NoTask == 0

Min(a, b) == IF a <= b THEN a ELSE b

RECURSIVE Pow2(_)
Pow2(n) == IF n = 0 THEN 1 ELSE 2 * Pow2(n - 1)

Seconds(s) == s * JitterGrid

\* ------------------------------------------------------------ input values
\* url argument: "" | None | 123 | a URL string
Urls == {"EMPTY_STR", "NONE", "INT", "OTHER"}
UrlIsStr(url) == url \in {"EMPTY_STR", "OTHER"}
UrlTruthy(url) == url \in {"INT", "OTHER"}

\* data argument: None | {"k": 1} | {} | {"k": object()} | [1] | []
Datas == {"NONE", "DICT", "EMPTY_DICT", "BAD_DICT", "LIST", "EMPTY_LIST"}
DataIsDict(data) == data \in {"DICT", "EMPTY_DICT", "BAD_DICT"}
DataTruthy(data) == data \in {"DICT", "BAD_DICT", "LIST"}
JsonDumpsRaises(data) == data = "BAD_DICT"

Methods == {"GET", "POST", "PUT"}

Requests == [url : Urls, data : Datas, method : Methods]

\* ------------------------------------------------------- python values
\* Parsed JSON values as Python objects; JSON null parses to None.
PyNone == "None"
TruthyValues == {"{'a': 1}", "[1]"}
FalsyValues == {"{}", "[]", "0", "False", "''", PyNone}
PyValues == TruthyValues \cup FalsyValues
Truthy(v) == v \in TruthyValues

\* Response bodies: JSON texts and one text that is not JSON.
JsonBodies == {"{\"a\": 1}", "[1]", "{}", "[]", "0", "false", "\"\"", "null"}
NotJson == "<html>"
Bodies == JsonBodies \cup {NotJson}

\* response.json(): json.loads of the body
JsonLoads(body) ==
    CASE body = "{\"a\": 1}" -> "{'a': 1}"
      [] body = "[1]" -> "[1]"
      [] body = "{}" -> "{}"
      [] body = "[]" -> "[]"
      [] body = "0" -> "0"
      [] body = "false" -> "False"
      [] body = "\"\"" -> "''"
      [] body = "null" -> PyNone

\* ------------------------------------------------- outcomes of a call
NoOutcome == [kind |-> "none", val |-> ""]
Return(v) == [kind |-> "return", val |-> v]
Raise(e) == [kind |-> "raise", val |-> e]

\* ------------------------------------------------- transport results
\* What session.get / session.post produces.  retry_after is the value of
\* the Retry-After header: "absent", an integer text, or an HTTP date.
NoHeader == "absent"
RetryAfterHeaders == {NoHeader, "0", "7", "Wed, 21 Oct 2026 07:28:00 GMT"}
HttpResponse(s, h, b) == [t |-> "http", status |-> s, retry_after |-> h, body |-> b]
NoResponse(t) == [t |-> t, status |-> 0, retry_after |-> NoHeader, body |-> ""]
TransportResults ==
    {NoResponse("proxy_error"), NoResponse("timeout"), NoResponse("network_error")}
    \cup {HttpResponse(200, NoHeader, b) : b \in Bodies}
    \cup {HttpResponse(403, NoHeader, ""), HttpResponse(500, NoHeader, "")}
    \cup {HttpResponse(429, h, "") : h \in RetryAfterHeaders}

VARIABLES
    request,      \* request[c]: url, data, method passed to retry_request
    max_retries,  \* max_retries[c]
    pc,           \* position of chain c in retry_request / send_request
    running,      \* chain that holds the event-loop thread, or NoTask
    retry_count,  \* loop variable of retry_request
    response,     \* outcome of the send_request call being handled
    result,       \* outcome of retry_request
    timer,        \* remaining time of the current sleep, grid units
    last_http,    \* transport result of the send being handled
    verb,         \* HTTP verb of the last call issued: "GET", "POST", "none"
    sends,        \* number of send_request calls made
    http_calls,   \* number of session.get / session.post calls made
    backoffs,     \* number of asyncio.sleep calls made
    max_logged,   \* number of 'Max retries reached' error logs
    all_failed,   \* every send so far returned None or raised
    \* per attempt, cleared when the next send starts or the chain ends:
    cooldown,     \* length of the time.sleep of this attempt, -1 if none
    delay,        \* delay of the backoff of this attempt, -1 if none
    slept,        \* sleeps completed in this attempt, in order
    since_resp,   \* time slept since this attempt's send got its transport
                  \* result: a lower bound of the time elapsed since then
    sent_json,    \* json= argument of the last call issued, NotPassed if none
    \* direct calls of the helper functions:
    backoff_call, \* the last two calls of exponential_backoff
    headers_call  \* the last call of build_headers

vars == <<request, max_retries, pc, running, retry_count, response, result,
          timer, last_http, verb, sends, http_calls, backoffs, max_logged,
          all_failed, cooldown, delay, slept, since_resp, sent_json,
          backoff_call, headers_call>>

\* ------------------------------------------------------ endpoint headers
\* utils.settings.DOMAIN_API: logical endpoint names to URLs; PING is a
\* list of URLs, the other entries are single URLs.
DOMAIN_API ==
    [PING |-> {"https://nodepay/ping1", "https://nodepay/ping2"},
     EARN_INFO |-> "https://nodepay/earn/info",
     MISSION |-> "https://nodepay/mission",
     COMPLETE_MISSION |-> "https://nodepay/mission/complete-mission",
     ACTIVATE |-> "https://nodepay/device/active"]

\* URL strings build_headers is called with: the endpoints and two others
HeaderUrls ==
    DOMAIN_API.PING
    \cup {DOMAIN_API.EARN_INFO, DOMAIN_API.MISSION,
          DOMAIN_API.COMPLETE_MISSION, DOMAIN_API.ACTIVATE,
          "https://nodepay/auth/session", "https://example.org/"}

Tokens == {"tokenA", "tokenB"}

\* impersonate_list of get_dynamic_impersonate
ImpersonateList ==
    {"edge99", "edge101", "safari15_3", "safari15_5", "chrome110", "chrome116"}

\* dict.update / {**a, **b}: the entries of b win
DictUpdate(a, b) == b @@ a

necessary_headers ==
    ("Accept" :> "*/*")
    @@ ("Accept-Language" :> "en-US,en;q=0.9")
    @@ ("Referer" :> "https://app.nodepay.ai/")
    @@ ("Origin" :> "chrome-extension://lgmpfmgeabnnlemejacfljbmonaomfmm")
    @@ ("Connection" :> "keep-alive")

optional_headers ==
    ("Sec-CH-UA" :> "\"Google Chrome\";v=\"122\", \"Chromium\";v=\"122\", \"Not/A)Brand\";v=\"99\"")
    @@ ("Sec-Ch-Ua-Mobile" :> "?0")
    @@ ("Sec-Ch-Ua-Platform" :> "\"Windows\"")
    @@ ("Sec-Fetch-Dest" :> "empty")
    @@ ("Sec-Fetch-Mode" :> "cors")
    @@ ("Sec-Fetch-Site" :> "cross-site")
    @@ ("TE" :> "trailers")
    @@ ("Pragma" :> "no-cache")
    @@ ("Cache-Control" :> "no-cache")

\* get_endpoint_headers without the `or url == ACTIVATE_URL` test
get_endpoint_headers_no_activate(url) ==
    IF \/ url \in DOMAIN_API.PING
       \/ url \in {DOMAIN_API.EARN_INFO, DOMAIN_API.MISSION,
                   DOMAIN_API.COMPLETE_MISSION}
    THEN DictUpdate(necessary_headers, optional_headers)
    ELSE ("Accept" :> "application/json")

get_endpoint_headers(url) ==
    IF \/ url \in DOMAIN_API.PING
       \/ url \in {DOMAIN_API.EARN_INFO, DOMAIN_API.MISSION,
                   DOMAIN_API.COMPLETE_MISSION}
       \/ url = DOMAIN_API.ACTIVATE
    THEN DictUpdate(necessary_headers, optional_headers)
    ELSE ("Accept" :> "application/json")

\* headers of build_headers before the payload validation: the base
\* headers updated with the endpoint-specific ones
base_headers(token, ua) ==
    ("Authorization" :> ("Bearer " \o token))
    @@ ("Content-Type" :> "application/json")
    @@ ("User-Agent" :> ua)

merged_headers(url, token, ua) ==
    DictUpdate(base_headers(token, ua), get_endpoint_headers(url))

\* ------------------------------------------------------------ build_headers
\* The error build_headers raises while validating the payload, "" if none.
NoError == ""

\* build_headers validating the payload for "POST" only
build_headers_error_post_only(method, data) ==
    IF method = "POST" /\ data # "NONE"
    THEN IF ~DataIsDict(data) THEN "ValueError: Payload must be a dictionary."
         ELSE IF JsonDumpsRaises(data) THEN "ValueError: Invalid payload data"
         ELSE NoError
    ELSE NoError

\* build_headers without its payload validation
build_headers_error_no_validation(method, data) == NoError

build_headers_error(method, data) ==
    IF method \in {"POST", "PUT"} /\ data # "NONE"
    THEN IF ~DataIsDict(data) THEN "ValueError: Payload must be a dictionary."
         ELSE IF JsonDumpsRaises(data) THEN "ValueError: Invalid payload data"
         ELSE NoError
    ELSE NoError

\* ------------------------------------------------------------- send_request
\* send_request without the `not url` test of its first check
send_request_preflight_no_empty_check(req) ==
    IF ~UrlIsStr(req.url)
    THEN "ValueError: URL must be a valid string."
    ELSE IF DataTruthy(req.data) /\ ~DataIsDict(req.data)
    THEN "ValueError: Data must be a dictionary."
    ELSE build_headers_error(req.method, req.data)

\* The error send_request raises before it issues the HTTP call, "" if none.
send_request_preflight(req) ==
    IF ~UrlTruthy(req.url) \/ ~UrlIsStr(req.url)
    THEN "ValueError: URL must be a valid string."
    ELSE IF DataTruthy(req.data) /\ ~DataIsDict(req.data)
    THEN "ValueError: Data must be a dictionary."
    ELSE build_headers_error(req.method, req.data)

\* a request verb taken from the method argument as it is
HttpVerbAsGiven(method) == method

\* session.get for method "GET", session.post for everything else
HttpVerb(method) == IF method = "GET" THEN "GET" ELSE "POST"

\* session.get passes no body, session.post passes json=data
NotPassed == "not passed"
HttpJson(method, data) == IF method = "GET" THEN NotPassed ELSE data

\* response.headers.get("Retry-After", "5") and int() of it
RetryAfterText(r) == IF r.retry_after = NoHeader THEN "5" ELSE r.retry_after
IntParses(text) == text \in {"0", "5", "7"}
IntOf(text) == CASE text = "0" -> 0 [] text = "5" -> DefaultRetryAfter [] text = "7" -> 7

\* Durations random.uniform(5, 10) is drawn from: the two ends of the range
CooldownDurations == {Seconds(CooldownMin), Seconds(CooldownMax)}

\* The handler without its 429 branch: only 403 sleeps
SleepDurationsNo429(r) ==
    IF r.t # "http" THEN {}
    ELSE IF r.status = 403 THEN CooldownDurations
    ELSE {}

\* The handler with a cooldown for every HTTP error status
SleepDurationsAnyStatus(r) ==
    IF r.t # "http" THEN {}
    ELSE IF r.status = 429 /\ IntParses(RetryAfterText(r))
    THEN {Seconds(IntOf(RetryAfterText(r)))}
    ELSE IF r.status >= 400 /\ r.status # 429 THEN CooldownDurations
    ELSE {}

\* The time.sleep lengths send_request can perform inside its
\* RequestException handler for transport result r.
SleepDurations(r) ==
    IF r.t # "http" THEN {}
    ELSE IF r.status = 403 THEN CooldownDurations
    ELSE IF r.status = 429 /\ IntParses(RetryAfterText(r))
    THEN {Seconds(IntOf(RetryAfterText(r)))}
    ELSE {}

SleepTag(r) == IF r.status = 403 THEN "time.sleep 403" ELSE "time.sleep 429"

\* send_request with the decode failure swallowed into the failure signal
send_request_outcome_decode_none(r) ==
    IF r.t = "proxy_error" THEN Raise("ProxyError")
    ELSE IF r.t \in {"timeout", "network_error"} THEN Return(PyNone)
    ELSE IF r.status < 400
    THEN IF r.body \in JsonBodies THEN Return(JsonLoads(r.body))
         ELSE Return(PyNone)
    ELSE IF r.status = 429 /\ ~IntParses(RetryAfterText(r))
    THEN Raise("ValueError: invalid literal for int()")
    ELSE Return(PyNone)

\* Outcome of send_request for transport result r when it does not sleep.
send_request_outcome(r) ==
    IF r.t = "proxy_error" THEN Raise("ProxyError")
    ELSE IF r.t \in {"timeout", "network_error"} THEN Return(PyNone)
    ELSE IF r.status < 400
    THEN IF r.body \in JsonBodies THEN Return(JsonLoads(r.body))
         ELSE Raise("ValueError: Invalid JSON in response")
    ELSE IF r.status = 429 /\ ~IntParses(RetryAfterText(r))
    THEN Raise("ValueError: invalid literal for int()")
    ELSE Return(PyNone)

\* A send failed in the sense of the retry controller's contract:
\* it returned the failure signal None or raised.
Failed(o) == o.kind = "raise" \/ (o.kind = "return" /\ o.val = PyNone)

\* ------------------------------------------------------ exponential_backoff
\* exponential_backoff without the min(.., 30)
exponential_backoff_nocap(n, j) == Seconds(BaseDelay * Pow2(n)) + j

\* exponential_backoff with random.uniform(0, 3) as jitter
exponential_backoff_wide_jitter(n, j) ==
    Min(Seconds(BaseDelay * Pow2(n)) + 3 * j, Seconds(BackoffCap))

\* min(base_delay * 2^retry_count + jitter, 30), jitter = j / JitterGrid
exponential_backoff(n, j) ==
    Min(Seconds(BaseDelay * Pow2(n)) + j, Seconds(BackoffCap))

Jitters == 0 .. (JitterGrid - 1)

\* ------------------------------------------------------------ retry_request
\* urlparse(url).path in the terminal log raises AttributeError for a truthy
\* url that is neither str nor bytes (it has no .decode)
UrlparseRaises(url) == UrlTruthy(url) /\ ~UrlIsStr(url)

\* `if not response:` written for `if response:`
IsSuccessInverted(o) == ~(o.kind = "return" /\ Truthy(o.val))

\* `if response:` in retry_request
IsSuccess(o) == o.kind = "return" /\ Truthy(o.val)

\* time.sleep(delay) written for await asyncio.sleep(delay)
BackoffHolderBlocking(c) == c

\* Holder of the event-loop thread while chain c waits in asyncio.sleep
BackoffHolder(c) == NoTask

\* Holder of the event-loop thread while chain c waits in time.sleep
CooldownHolder(c) == c

CanRun(c) == running \in {NoTask, c}

\* for retry_count in range(max_retries): next iteration, call send_request
\* up to the HTTP call (validation, build_headers, session.get/post issued)
Attempt(c) ==
    /\ pc[c] = "loop"
    /\ CanRun(c)
    /\ retry_count[c] < max_retries[c]
    /\ running' = c
    /\ sends' = [sends EXCEPT ![c] = @ + 1]
    /\ slept' = [slept EXCEPT ![c] = <<>>]
    /\ cooldown' = [cooldown EXCEPT ![c] = -1]
    /\ delay' = [delay EXCEPT ![c] = -1]
    /\ since_resp' = [since_resp EXCEPT ![c] = 0]
    /\ last_http' = [last_http EXCEPT ![c] = NoResponse("none")]
    /\ LET err == send_request_preflight(request[c]) IN
       IF err # NoError
       THEN /\ response' = [response EXCEPT ![c] = Raise(err)]
            /\ pc' = [pc EXCEPT ![c] = "ret"]
            /\ UNCHANGED <<http_calls, verb, sent_json>>
       ELSE /\ response' = [response EXCEPT ![c] = NoOutcome]
            /\ pc' = [pc EXCEPT ![c] = "inflight"]
            /\ http_calls' = [http_calls EXCEPT ![c] = @ + 1]
            /\ verb' = [verb EXCEPT ![c] = HttpVerb(request[c].method)]
            /\ sent_json' = [sent_json EXCEPT ![c] =
                                HttpJson(request[c].method, request[c].data)]
    /\ UNCHANGED <<backoff_call, headers_call, request,
                   max_retries, retry_count, result, timer,
                   backoffs, max_logged, all_failed>>

\* The HTTP call ends with transport result r and send_request ends without
\* sleeping: return response.json(), raise, or return None
Respond(c, r) ==
    /\ pc[c] = "inflight"
    /\ running = c
    /\ SleepDurations(r) = {}
    /\ last_http' = [last_http EXCEPT ![c] = r]
    /\ response' = [response EXCEPT ![c] = send_request_outcome(r)]
    /\ all_failed' = [all_failed EXCEPT ![c] = @ /\ Failed(send_request_outcome(r))]
    /\ pc' = [pc EXCEPT ![c] = "ret"]
    /\ UNCHANGED <<backoff_call, headers_call, sent_json, request,
                   max_retries, running, retry_count, result, timer,
                   verb, sends, http_calls, backoffs, max_logged, cooldown,
                   delay, slept, since_resp>>

\* The HTTP call ends with 403 or 429 and send_request enters time.sleep(d)
RespondSleep(c, r, d) ==
    /\ pc[c] = "inflight"
    /\ running = c
    /\ d \in SleepDurations(r)
    /\ last_http' = [last_http EXCEPT ![c] = r]
    /\ timer' = [timer EXCEPT ![c] = d]
    /\ cooldown' = [cooldown EXCEPT ![c] = d]
    /\ running' = CooldownHolder(c)
    /\ pc' = [pc EXCEPT ![c] = "cooldown"]
    /\ UNCHANGED <<backoff_call, headers_call, sent_json, request,
                   max_retries, retry_count, response, result, verb,
                   sends, http_calls, backoffs, max_logged, all_failed,
                   delay, slept, since_resp>>

\* time.sleep returns and send_request returns None
CooldownEnd(c) ==
    /\ pc[c] = "cooldown"
    /\ CanRun(c)
    /\ timer[c] = 0
    /\ running' = c
    /\ slept' = [slept EXCEPT ![c] = Append(@, SleepTag(last_http[c]))]
    /\ response' = [response EXCEPT ![c] = Return(PyNone)]
    /\ pc' = [pc EXCEPT ![c] = "ret"]
    /\ UNCHANGED <<backoff_call, headers_call, sent_json, request,
                   max_retries, retry_count, result, timer,
                   last_http, verb, sends, http_calls, backoffs, max_logged,
                   all_failed, cooldown, delay, since_resp>>

\* What a finished chain leaves behind of the per-attempt bookkeeping
EndAttempt(c) ==
    /\ response' = [response EXCEPT ![c] = NoOutcome]
    /\ last_http' = [last_http EXCEPT ![c] = NoResponse("none")]
    /\ cooldown' = [cooldown EXCEPT ![c] = -1]
    /\ delay' = [delay EXCEPT ![c] = -1]
    /\ slept' = [slept EXCEPT ![c] = <<>>]
    /\ since_resp' = [since_resp EXCEPT ![c] = 0]

\* if response: return response
ReturnSuccess(c) ==
    /\ pc[c] = "ret"
    /\ running = c
    /\ IsSuccess(response[c])
    /\ result' = [result EXCEPT ![c] = Return(response[c].val)]
    /\ pc' = [pc EXCEPT ![c] = "done"]
    /\ running' = NoTask
    /\ EndAttempt(c)
    /\ UNCHANGED <<backoff_call, headers_call, sent_json, request,
                   max_retries, retry_count, timer, verb, sends,
                   http_calls, backoffs, max_logged, all_failed>>

\* falsy response or caught Exception: delay = await exponential_backoff(..);
\* await asyncio.sleep(delay) suspends the chain.  The outcome of the send
\* is not read again.
StartBackoff(c, j) ==
    /\ pc[c] = "ret"
    /\ running = c
    /\ ~IsSuccess(response[c])
    /\ delay' = [delay EXCEPT ![c] = exponential_backoff(retry_count[c], j)]
    /\ timer' = [timer EXCEPT ![c] = exponential_backoff(retry_count[c], j)]
    /\ backoffs' = [backoffs EXCEPT ![c] = @ + 1]
    /\ pc' = [pc EXCEPT ![c] = "backoff"]
    /\ running' = BackoffHolder(c)
    /\ response' = [response EXCEPT ![c] = NoOutcome]
    /\ last_http' = [last_http EXCEPT ![c] = NoResponse("none")]
    /\ UNCHANGED <<backoff_call, headers_call, sent_json, request,
                   max_retries, retry_count, result, verb, sends,
                   http_calls, max_logged, all_failed, cooldown, slept,
                   since_resp>>

\* retry_request with its loop counter in a variable all chains share
BackoffWakeSharedCounter(c) ==
    /\ pc[c] = "backoff"
    /\ CanRun(c)
    /\ timer[c] = 0
    /\ running' = c
    /\ slept' = [slept EXCEPT ![c] = Append(@, "asyncio.sleep")]
    /\ retry_count' = [d \in Chains |->
                          IF pc[d] \in {"idle", "done"} THEN retry_count[d]
                          ELSE Min(retry_count[d] + 1, max_retries[d])]
    /\ pc' = [pc EXCEPT ![c] = "loop"]
    /\ UNCHANGED <<backoff_call, headers_call, sent_json, request,
                   max_retries, response, result, timer, last_http,
                   verb, sends, http_calls, backoffs, max_logged, all_failed,
                   cooldown, delay, since_resp>>

\* asyncio.sleep is over and the loop resumes the chain: log 'Retry i/n',
\* next value of retry_count
BackoffWake(c) ==
    /\ pc[c] = "backoff"
    /\ CanRun(c)
    /\ timer[c] = 0
    /\ running' = c
    /\ slept' = [slept EXCEPT ![c] = Append(@, "asyncio.sleep")]
    /\ retry_count' = [retry_count EXCEPT ![c] = @ + 1]
    /\ pc' = [pc EXCEPT ![c] = "loop"]
    /\ UNCHANGED <<backoff_call, headers_call, sent_json, request,
                   max_retries, response, result, timer, last_http,
                   verb, sends, http_calls, backoffs, max_logged, all_failed,
                   cooldown, delay, since_resp>>

\* range(max_retries) is exhausted: log 'Max retries reached for URL:
\* {urlparse(url).path}' and return None
GiveUp(c) ==
    /\ pc[c] = "loop"
    /\ CanRun(c)
    /\ retry_count[c] >= max_retries[c]
    /\ IF UrlparseRaises(request[c].url)
       THEN /\ result' = [result EXCEPT ![c] = Raise("AttributeError")]
            /\ UNCHANGED max_logged
       ELSE /\ result' = [result EXCEPT ![c] = Return(PyNone)]
            /\ max_logged' = [max_logged EXCEPT ![c] = @ + 1]
    /\ pc' = [pc EXCEPT ![c] = "done"]
    /\ running' = NoTask
    /\ EndAttempt(c)
    /\ UNCHANGED <<backoff_call, headers_call, sent_json, request,
                   max_retries, retry_count, timer, verb, sends,
                   http_calls, backoffs, all_failed>>

\* Time passes up to the end of the earliest running sleep.
Sleeping == {c \in Chains : timer[c] > 0}
\* Chain c is inside time.sleep or asyncio.sleep
Waiting(c) == pc[c] \in {"cooldown", "backoff"} /\ timer[c] > 0
Tick ==
    /\ Sleeping # {}
    /\ LET dt == CHOOSE t \in {timer[c] : c \in Sleeping} :
                    \A c \in Sleeping : t <= timer[c]
       IN /\ timer' = [c \in Chains |-> IF timer[c] > dt THEN timer[c] - dt ELSE 0]
          /\ since_resp' = [c \in Chains |->
                IF Waiting(c) THEN since_resp[c] + dt ELSE since_resp[c]]
    /\ UNCHANGED <<backoff_call, headers_call, sent_json, request,
                   max_retries, pc, running, retry_count, response,
                   result, last_http, verb, sends, http_calls, backoffs,
                   max_logged, all_failed, cooldown, delay, slept>>

ChainNext(c) ==
    \/ Attempt(c)
    \/ \E r \in TransportResults : Respond(c, r)
    \/ \E r \in TransportResults : \E d \in SleepDurations(r) : RespondSleep(c, r, d)
    \/ CooldownEnd(c)
    \/ ReturnSuccess(c)
    \/ \E j \in Jitters : StartBackoff(c, j)
    \/ BackoffWake(c)
    \/ GiveUp(c)

Next ==
    \/ \E c \in Chains : ChainNext(c)
    \/ Tick

DefaultRequest == [url |-> "OTHER", data |-> "DICT", method |-> "POST"]

\* ------------------------------------------------- direct helper calls
NoBackoffCall == [n |-> -1, j |-> 0, delay |-> 0]
NoHeadersCall == [url |-> "", method |-> "", data |-> "", token |-> "",
                  raised |-> NoError, headers |-> <<>>]
NoHelperCalls ==
    /\ backoff_call = [prev |-> NoBackoffCall, last |-> NoBackoffCall]
    /\ headers_call = NoHeadersCall

InitCommon ==
    /\ running = NoTask
    /\ retry_count = [c \in Chains |-> 0]
    /\ response = [c \in Chains |-> NoOutcome]
    /\ result = [c \in Chains |-> NoOutcome]
    /\ timer = [c \in Chains |-> 0]
    /\ last_http = [c \in Chains |-> NoResponse("none")]
    /\ verb = [c \in Chains |-> "none"]
    /\ sends = [c \in Chains |-> 0]
    /\ http_calls = [c \in Chains |-> 0]
    /\ backoffs = [c \in Chains |-> 0]
    /\ max_logged = [c \in Chains |-> 0]
    /\ all_failed = [c \in Chains |-> TRUE]
    /\ cooldown = [c \in Chains |-> -1]
    /\ delay = [c \in Chains |-> -1]
    /\ slept = [c \in Chains |-> <<>>]
    /\ since_resp = [c \in Chains |-> 0]
    /\ sent_json = [c \in Chains |-> NotPassed]

\* One call of retry_request (chain 1) with any arguments; chain 2 is not
\* started.
Init ==
    /\ InitCommon
    /\ NoHelperCalls
    /\ \E req \in Requests :
          request = [c \in Chains |-> IF c = 1 THEN req ELSE DefaultRequest]
    /\ \E m \in 0 .. MaxRetries :
          max_retries = [c \in Chains |-> IF c = 1 THEN m ELSE DefaultMaxRetries]
    /\ pc = [c \in Chains |-> IF c = 1 THEN "loop" ELSE "idle"]

Spec == Init /\ [][Next]_vars

\* Two calls of retry_request with well-formed arguments, created as tasks
\* on the same event loop.
InitConc ==
    /\ InitCommon
    /\ NoHelperCalls
    /\ request = [c \in Chains |-> DefaultRequest]
    /\ max_retries \in [Chains -> 1 .. MaxRetriesConc]
    /\ pc = [c \in Chains |-> "loop"]

SpecConc == InitConc /\ [][Next]_vars

\* The state of the call chains, untouched by direct helper calls
chain_vars == <<request, max_retries, pc, running, retry_count, response,
                result, timer, last_http, verb, sends, http_calls, backoffs,
                max_logged, all_failed, cooldown, delay, slept, since_resp,
                sent_json>>

\* await exponential_backoff(n) called on its own, jitter j / JitterGrid
CallBackoff(n, j) ==
    /\ backoff_call' = [prev |-> backoff_call.last,
                        last |-> [n |-> n, j |-> j,
                                  delay |-> exponential_backoff(n, j)]]
    /\ UNCHANGED <<chain_vars, headers_call>>

\* await build_headers(url, account, method, data) called on its own;
\* ua is the value random.choice gives get_dynamic_impersonate
CallBuildHeaders(url, token, ua, method, data) ==
    /\ headers_call' =
          [url |-> url, method |-> method, data |-> data, token |-> token,
           raised |-> build_headers_error(method, data),
           headers |-> IF build_headers_error(method, data) = NoError
                       THEN merged_headers(url, token, ua) ELSE <<>>]
    /\ UNCHANGED <<chain_vars, backoff_call>>

TypeOK ==
    /\ running \in Chains \cup {NoTask}
    /\ \A c \in Chains :
          /\ pc[c] \in {"idle", "loop", "inflight", "cooldown", "ret", "backoff", "done"}
          /\ retry_count[c] \in 0 .. max_retries[c]
          /\ timer[c] >= 0
          /\ pc[c] \in {"inflight", "ret", "cooldown"} => running = c
          /\ pc[c] \in {"backoff", "done", "idle"} => running # c


\* ======================================================== properties
Active == {c \in Chains : pc[c] # "idle"}

\* HTTP status in the success range and a body that parses as JSON
HttpOkJson(r) == r.t = "http" /\ r.status = 200 /\ r.body \in JsonBodies
HttpOkNotJson(r) == r.t = "http" /\ r.status = 200 /\ r.body \notin JsonBodies

\* C1: when every call of send_request fails (returns None or raises),
\* retry_request makes exactly max_retries calls and then returns None
\* (for max_retries >= 1).
C1_AllFailExactlyMaxRetries ==
    \A c \in Active :
        (pc[c] = "done" /\ max_retries[c] >= 1 /\ all_failed[c])
            => (sends[c] = max_retries[c] /\ result[c] = Return(PyNone))

\* C2: when a send returns a non-empty (truthy) parsed JSON value,
\* retry_request returns exactly that value after that send (send number
\* retry_count + 1), and a finished call makes no further send or backoff.
C2_FirstSuccessReturns ==
    [][\A c \in Active :
        /\ (pc[c] = "ret" /\ HttpOkJson(last_http[c])
                /\ Truthy(JsonLoads(last_http[c].body)) /\ pc'[c] # "ret")
              => /\ pc'[c] = "done"
                 /\ result'[c] = Return(JsonLoads(last_http[c].body))
                 /\ sends'[c] = retry_count[c] + 1
                 /\ sends'[c] <= max_retries[c]
                 /\ backoffs'[c] = retry_count[c]
        /\ pc[c] = "done"
              => /\ pc'[c] = "done"
                 /\ sends'[c] = sends[c]
                 /\ backoffs'[c] = backoffs[c]
                 /\ result'[c] = result[c]]_vars

C2_Witness ==
    \E c \in Active :
        /\ pc[c] = "done"
        /\ max_retries[c] = 3
        /\ sends[c] = 2
        /\ backoffs[c] = 1
        /\ result[c] = Return("{'a': 1}")

\* C3: a send with HTTP success status and a JSON body is a success for
\* every parsed value, falsy ones included: retry_request returns the
\* parsed value right after that send and does not retry.
C3_EveryParsedValueReturned ==
    [][\A c \in Active :
        (pc[c] = "ret" /\ HttpOkJson(last_http[c]) /\ pc'[c] # "ret")
            => /\ pc'[c] = "done"
               /\ result'[c] = Return(JsonLoads(last_http[c].body))]_vars

\* C4: a caller of retry_request only observes a success value, or None
\* after the retry bound is exhausted; no exception escapes.
C4_OnlySuccessOrNone ==
    \A c \in Active :
        pc[c] = "done"
            => /\ result[c].kind = "return"
               /\ \/ Truthy(result[c].val)
                  \/ (result[c].val = PyNone /\ retry_count[c] = max_retries[c])

\* The requests the validation of send_request and build_headers rejects:
\* url empty or not a string, payload a non-empty non-mapping, or a
\* non-mapping payload other than None with method POST or PUT.
ValidationFails(req) ==
    \/ req.url \in {"EMPTY_STR", "NONE", "INT"}
    \/ req.data = "LIST"
    \/ (req.data = "EMPTY_LIST" /\ req.method # "GET")

\* url empty or not a string, or payload not a mapping
InvalidArguments(req) ==
    \/ req.url \in {"EMPTY_STR", "NONE", "INT"}
    \/ req.data \in {"LIST", "EMPTY_LIST"}

\* C5 (as stated): for a request with an invalid url or payload
\* retry_request makes no second call of send_request and no backoff sleep.
C5_NoRetryAfterValidationError ==
    \A c \in Active :
        InvalidArguments(request[c]) => (sends[c] <= 1 /\ backoffs[c] = 0)

\* C5 (amended): a request the validation rejects fails fast out of
\* send_request only: every send raises ValueError before any HTTP call,
\* and retry_request handles it as a failed attempt, with a backoff sleep
\* after each of its max_retries calls of send_request.
C5_ValidationErrorRetried ==
    \A c \in Active :
        ValidationFails(request[c])
            => /\ http_calls[c] = 0
               /\ pc[c] # "inflight"
               /\ pc[c] = "ret" => response[c].kind = "raise"
               /\ backoffs[c] \in {sends[c] - 1, sends[c]}
               /\ pc[c] = "done"
                     => (sends[c] = max_retries[c] /\ backoffs[c] = max_retries[c])

C5_Witness ==
    \E c \in Active :
        /\ ValidationFails(request[c])
        /\ pc[c] = "done"
        /\ sends[c] = 3
        /\ backoffs[c] = 3

\* A proxy failure, another network failure, a timeout or an HTTP status
\* of 400 and above
TransportFailure(r) ==
    \/ r.t \in {"proxy_error", "timeout", "network_error"}
    \/ (r.t = "http" /\ r.status >= 400)

\* C6: send_request turns every transport and HTTP failure into the
\* failure signal: it returns None and raises nothing.
C6_TransportFailuresReturnNone ==
    \A c \in Active :
        (pc[c] = "ret" /\ TransportFailure(last_http[c]))
            => response[c] = Return(PyNone)

\* C7: a body that is not JSON on an HTTP-success response ends
\* send_request with the raised ValueError 'Invalid JSON in response',
\* which differs from the None of an HTTP-status failure, and
\* retry_request counts the attempt as failed and goes on to its backoff.
C7_DecodeFailureDistinctAndRetried ==
    [][\A c \in Active :
        /\ (pc[c] = "inflight" /\ HttpOkNotJson(last_http'[c]))
              => /\ pc'[c] = "ret"
                 /\ response'[c] = Raise("ValueError: Invalid JSON in response")
                 /\ response'[c] # send_request_outcome(HttpResponse(500, NoHeader, ""))
                 /\ result'[c] = NoOutcome
        /\ (pc[c] = "ret" /\ HttpOkNotJson(last_http[c]) /\ pc'[c] # "ret")
              => /\ pc'[c] = "backoff"
                 /\ backoffs'[c] = backoffs[c] + 1
                 /\ result'[c] = NoOutcome
                 /\ sends'[c] = retry_count[c] + 1]_vars

C7_Witness ==
    \E c \in Active :
        /\ pc[c] = "ret"
        /\ HttpOkNotJson(last_http[c])
        /\ response[c].kind = "raise"
        /\ retry_count[c] = 1

\* Seconds of cooldown a 429 response asks for: Retry-After, 5 if absent
RetryAfterSeconds(r) ==
    IF r.retry_after = NoHeader THEN 5
    ELSE IF r.retry_after = "7" THEN 7 ELSE 0

Http429Int(r) ==
    r.t = "http" /\ r.status = 429 /\ r.retry_after \in {NoHeader, "0", "7"}

\* C8: a 429 response with an integer Retry-After of r seconds (5 when
\* absent) makes send_request sleep r seconds before it returns None; the
\* cooldown sleep comes first, the backoff sleep second, and the next send
\* starts no earlier than r plus the backoff delay after the response.
C8_RetryAfterThenBackoffThenSend ==
    [][\A c \in Active :
        /\ (pc[c] = "inflight" /\ Http429Int(last_http'[c]))
              => /\ pc'[c] = "cooldown"
                 /\ timer'[c] = RetryAfterSeconds(last_http'[c]) * JitterGrid
                 /\ cooldown'[c] = timer'[c]
        /\ (pc[c] = "cooldown" /\ Http429Int(last_http[c]) /\ pc'[c] # "cooldown")
              => /\ pc'[c] = "ret"
                 /\ response'[c] = Return(PyNone)
                 /\ since_resp[c] >= cooldown[c]
                 /\ slept'[c] = <<"time.sleep 429">>
        /\ (pc[c] = "loop" /\ pc'[c] # "loop" /\ slept[c] # <<>>
                /\ slept[c][1] = "time.sleep 429")
              => /\ slept[c] = <<"time.sleep 429", "asyncio.sleep">>
                 /\ delay[c] >= JitterGrid
                 /\ since_resp[c] >= cooldown[c] + delay[c]]_vars

C8_Witness ==
    \E c \in Active :
        /\ pc[c] = "loop"
        /\ retry_count[c] < max_retries[c]
        /\ slept[c] = <<"time.sleep 429", "asyncio.sleep">>
        /\ cooldown[c] = 7 * JitterGrid
        /\ since_resp[c] >= cooldown[c] + delay[c]

\* Chain d has a step to take that waits for no sleep of its own
Runnable(d) ==
    /\ pc[d] \notin {"idle", "done"}
    /\ timer[d] = 0

\* C9: while a chain is suspended in its backoff delay, every other chain
\* that has a step to take can take it.
C9_BackoffDoesNotBlock ==
    \A c, d \in Chains :
        (c # d /\ pc[c] = "backoff" /\ timer[c] > 0 /\ Runnable(d))
            => ENABLED ChainNext(d)

C9_Witness ==
    \E c, d \in Chains :
        /\ c # d
        /\ pc[c] = "backoff"
        /\ timer[c] > 0
        /\ pc[d] = "ret"
        /\ IsSuccess(response[d])

\* C10: while a chain is in the 403 or 429 cooldown sleep of its
\* send_request, every other chain that has a step to take (start or
\* finish a send) can take it.
C10_CooldownDoesNotBlock ==
    \A c, d \in Chains :
        (c # d /\ pc[c] = "cooldown" /\ timer[c] > 0 /\ Runnable(d))
            => ENABLED ChainNext(d)


\* --------------------------------------------- helper functions on their own
NextPure ==
    \/ \E n \in 0 .. MaxRetryCount : \E j \in Jitters : CallBackoff(n, j)

\* No call chain runs; the helper functions are called directly with
\* arguments from bounded sets.
InitPure ==
    /\ InitCommon
    /\ NoHelperCalls
    /\ request = [c \in Chains |-> DefaultRequest]
    /\ max_retries = [c \in Chains |-> DefaultMaxRetries]
    /\ pc = [c \in Chains |-> "idle"]

SpecPure == InitPure /\ [][NextPure]_vars

\* C11: exponential_backoff(n) with jitter j in [0, 1) is min(2^n + j, 30):
\* at least min(2^n, 30), less than 2^n + 1, never more than 30.
C11_BackoffValue ==
    LET b == backoff_call.last
        exact == Pow2(b.n) * JitterGrid + b.j
    IN  b.n >= 0
          => /\ b.delay = (IF exact <= 30 * JitterGrid THEN exact ELSE 30 * JitterGrid)
             /\ b.delay >= (IF Pow2(b.n) <= 30 THEN Pow2(b.n) ELSE 30) * JitterGrid
             /\ b.delay < (Pow2(b.n) + 1) * JitterGrid
             /\ b.delay <= 30 * JitterGrid

C11_Witness ==
    /\ backoff_call.last.n = 4
    /\ backoff_call.last.j = JitterGrid - 1
    /\ backoff_call.last.delay = 17 * JitterGrid - 1

\* C17: for n < m and any two jitters, exponential_backoff(n) is at most
\* exponential_backoff(m); once 2^n >= 30 the delay is exactly 30.
C17_BackoffMonotone ==
    LET a == backoff_call.prev
        b == backoff_call.last
    IN  (a.n >= 0 /\ b.n >= 0)
          => /\ a.n < b.n => a.delay <= b.delay
             /\ b.n < a.n => b.delay <= a.delay
             /\ Pow2(b.n) >= 30 => b.delay = 30 * JitterGrid

C17_Witness ==
    /\ backoff_call.prev.n = 4
    /\ backoff_call.prev.j = JitterGrid - 1
    /\ backoff_call.last.n = 5
    /\ backoff_call.last.j = 0
    /\ backoff_call.last.delay = 30 * JitterGrid


NextHeaders ==
    \E url \in HeaderUrls : \E token \in Tokens : \E ua \in ImpersonateList :
        \E method \in Methods : \E data \in Datas :
            CallBuildHeaders(url, token, ua, method, data)

SpecHeaders == InitPure /\ [][NextHeaders]_vars

\* The URLs of the ping / earn-info / mission / complete-mission /
\* activate set
EndpointUrls ==
    {"https://nodepay/ping1", "https://nodepay/ping2",
     "https://nodepay/earn/info", "https://nodepay/mission",
     "https://nodepay/mission/complete-mission",
     "https://nodepay/device/active"}

SecKeys ==
    {"Sec-CH-UA", "Sec-Ch-Ua-Mobile", "Sec-Ch-Ua-Platform", "Sec-Fetch-Dest",
     "Sec-Fetch-Mode", "Sec-Fetch-Site"}

\* C13: when build_headers returns, Authorization is 'Bearer <token>',
\* Content-Type is 'application/json' and User-Agent is present; for an
\* endpoint URL the result also has Accept, Referer, Origin and the Sec-*
\* keys, for any other URL its keys are exactly Authorization,
\* Content-Type, User-Agent and Accept.
C13_HeaderSets ==
    LET h == headers_call IN
    (h.url # "" /\ h.raised = NoError)
        => /\ {"Authorization", "Content-Type", "User-Agent"} \subseteq DOMAIN h.headers
           /\ h.headers["Authorization"] = "Bearer " \o h.token
           /\ h.headers["Content-Type"] = "application/json"
           /\ h.headers["User-Agent"] \in ImpersonateList
           /\ IF h.url \in EndpointUrls
              THEN {"Accept", "Referer", "Origin"} \cup SecKeys \subseteq DOMAIN h.headers
              ELSE DOMAIN h.headers =
                     {"Authorization", "Content-Type", "User-Agent", "Accept"}

C13_Witness ==
    /\ headers_call.url = "https://nodepay/device/active"
    /\ headers_call.raised = NoError
    /\ headers_call.token = "tokenB"
    /\ headers_call.headers["Authorization"] = "Bearer tokenB"
    /\ headers_call.headers["Accept"] = "*/*"
    /\ "Sec-Fetch-Mode" \in DOMAIN headers_call.headers


\* A payload that is not a mapping: [1], 'x', 1, True or [], '', 0, False
NonMapping(data) == data \in {"LIST", "EMPTY_LIST"}

ValueErrors ==
    {"ValueError: URL must be a valid string.",
     "ValueError: Data must be a dictionary.",
     "ValueError: Payload must be a dictionary."}

\* C12 (as stated): for every non-mapping payload and every method,
\* build_headers and send_request both fail with ValueError and
\* send_request issues no HTTP call.
C12_NonMappingAlwaysFails ==
    \A c \in Active :
        (NonMapping(request[c].data) /\ sends[c] >= 1)
            => /\ build_headers_error(request[c].method, request[c].data) # NoError
               /\ http_calls[c] = 0
               /\ pc[c] = "ret" => response[c].val \in ValueErrors

\* C12 (amended): with method POST or PUT a non-mapping payload makes
\* build_headers and send_request fail with ValueError before any HTTP
\* call; with method GET build_headers does not validate the payload,
\* send_request fails only for a truthy non-mapping payload, and a falsy
\* one with a valid URL is followed by the HTTP call.
C12_NonMappingPostPutFails ==
    \A c \in Active :
        LET req == request[c] IN
        (NonMapping(req.data) /\ sends[c] >= 1)
            => /\ req.method \in {"POST", "PUT"}
                    => /\ build_headers_error(req.method, req.data)
                            = "ValueError: Payload must be a dictionary."
                       /\ http_calls[c] = 0
                       /\ pc[c] # "inflight"
                       /\ pc[c] = "ret" => response[c].val \in ValueErrors
               /\ req.method = "GET"
                    => /\ build_headers_error(req.method, req.data) = NoError
                       /\ req.data = "LIST"
                            => /\ http_calls[c] = 0
                               /\ pc[c] = "ret" => response[c].val \in ValueErrors
                       /\ (req.data = "EMPTY_LIST" /\ req.url = "OTHER")
                            => http_calls[c] = sends[c]

C12_Witness ==
    \E c \in Active :
        /\ request[c] = [url |-> "OTHER", data |-> "EMPTY_LIST", method |-> "PUT"]
        /\ pc[c] = "ret"
        /\ response[c] = Raise("ValueError: Payload must be a dictionary.")
        /\ http_calls[c] = 0
        /\ sends[c] = 2

\* The requests that pass the checks of send_request and build_headers
ValidRequest(req) ==
    /\ req.url = "OTHER"
    /\ \/ req.data \in {"NONE", "DICT", "EMPTY_DICT"}
       \/ (req.method = "GET" /\ req.data \in {"BAD_DICT", "EMPTY_LIST"})

\* C14: a call of send_request issues exactly one HTTP call when the
\* validation passes and none when validation or header building fails;
\* retry_request issues at most max_retries HTTP calls.
C14_OneHttpCallPerSend ==
    [][\A c \in Active :
        /\ sends'[c] \in {sends[c], sends[c] + 1}
        /\ http_calls'[c] - http_calls[c] =
              (IF sends'[c] = sends[c] THEN 0
               ELSE IF ValidRequest(request[c]) THEN 1 ELSE 0)
        /\ http_calls'[c] <= sends'[c]
        /\ sends'[c] <= max_retries[c]]_vars

C14_Witness ==
    \E c \in Active :
        /\ pc[c] = "done"
        /\ ValidRequest(request[c])
        /\ max_retries[c] = 3
        /\ http_calls[c] = 3
        /\ sends[c] = 3


\* C15: backoff sleeps happen only between two attempts: no sleep follows
\* the last failed attempt, and a run whose max_retries attempts all fail
\* has slept max_retries - 1 times.
C15_BackoffOnlyBetweenAttempts ==
    \A c \in Active :
        /\ sends[c] >= 1 => backoffs[c] <= sends[c] - 1
        /\ (pc[c] = "done" /\ sends[c] = max_retries[c] /\ max_retries[c] >= 1
                /\ ~Truthy(result[c].val))
              => backoffs[c] = max_retries[c] - 1

\* C16: send_request sleeps only for an HTTP 403 response (5 to 10
\* seconds) or an HTTP 429 response (Retry-After seconds); another status
\* of 400 and above, a timeout or another network error returns None
\* without a sleep, and a successful send never sleeps.
C16_SleepOnly403Or429 ==
    [][\A c \in Active :
        (pc[c] = "inflight" /\ pc'[c] # "inflight")
            => LET r == last_http'[c] IN
               IF r.t = "http" /\ r.status = 403
               THEN /\ pc'[c] = "cooldown"
                    /\ timer'[c] \in (5 * JitterGrid) .. (10 * JitterGrid)
               ELSE IF r.t = "http" /\ r.status = 429
               THEN pc'[c] = "cooldown"
                      => timer'[c] = RetryAfterSeconds(r) * JitterGrid
               ELSE /\ pc'[c] = "ret"
                    /\ timer'[c] = 0
                    /\ cooldown'[c] = -1
                    /\ slept'[c] = <<>>
                    /\ (r.t \in {"timeout", "network_error"} \/ r.status >= 400)
                          => response'[c] = Return(PyNone)]_vars

C16_Witness ==
    \E c \in Active :
        /\ pc[c] = "ret"
        /\ last_http[c].status = 403
        /\ slept[c] = <<"time.sleep 403">>
        /\ cooldown[c] = 10 * JitterGrid
        /\ since_resp[c] >= 10 * JitterGrid
        /\ response[c] = Return(PyNone)

\* C18: method 'GET' issues a GET without a body; every other method,
\* 'PUT' included, issues a POST with the payload as json; no other verb
\* is ever used.
C18_VerbFromMethod ==
    \A c \in Active :
        /\ http_calls[c] = 0 => (verb[c] = "none" /\ sent_json[c] = "not passed")
        /\ http_calls[c] > 0
              => /\ verb[c] \in {"GET", "POST"}
                 /\ request[c].method = "GET"
                       => (verb[c] = "GET" /\ sent_json[c] = "not passed")
                 /\ request[c].method # "GET"
                       => (verb[c] = "POST" /\ sent_json[c] = request[c].data)

C18_Witness ==
    \E c \in Active :
        /\ request[c].method = "PUT"
        /\ request[c].data = "DICT"
        /\ http_calls[c] = 2
        /\ verb[c] = "POST"
        /\ sent_json[c] = "DICT"

\* C19: retry_request ends after at most max_retries sends; with
\* max_retries = 0 it sends nothing, sleeps never and returns None; 'Max
\* retries reached' is logged exactly once when the loop is exhausted
\* without success and never on a run that returns a success value.
C19_ExhaustionLoggedOnce ==
    \A c \in Active :
        /\ sends[c] <= max_retries[c]
        /\ pc[c] # "done" => max_logged[c] = 0
        /\ pc[c] = "done"
              => IF result[c].kind = "return" /\ Truthy(result[c].val)
                 THEN max_logged[c] = 0
                 ELSE /\ max_logged[c] = 1
                      /\ result[c] = Return(PyNone)
                      /\ max_retries[c] = 0 => (sends[c] = 0 /\ backoffs[c] = 0)

\* C20: a step of one chain, or the passing of time, changes nothing of
\* another chain's request, counters, outcome and result; what a chain
\* does after a send is decided by that send's own outcome, and it ends
\* with its own success value after retry_count + 1 sends or with None
\* after max_retries sends.
C20_ChainsIndependent ==
    [][\A c \in Chains :
        /\ request'[c] = request[c]
        /\ max_retries'[c] = max_retries[c]
        /\ pc'[c] = pc[c]
              => /\ retry_count'[c] = retry_count[c]
                 /\ response'[c] = response[c]
                 /\ result'[c] = result[c]
                 /\ last_http'[c] = last_http[c]
                 /\ sends'[c] = sends[c]
                 /\ http_calls'[c] = http_calls[c]
                 /\ backoffs'[c] = backoffs[c]
                 /\ max_logged'[c] = max_logged[c]
                 /\ all_failed'[c] = all_failed[c]
        /\ (pc[c] # "done" /\ pc'[c] = "done")
              => IF response[c].kind = "return" /\ response[c].val \in TruthyValues
                 THEN /\ result'[c] = Return(response[c].val)
                      /\ sends'[c] = retry_count[c] + 1
                 ELSE /\ result'[c] = Return(PyNone)
                      /\ sends'[c] = max_retries[c]
                      /\ retry_count[c] = max_retries[c]]_vars

C20_Witness ==
    /\ pc[1] = "done"
    /\ result[1] = Return("{'a': 1}")
    /\ sends[1] = 2
    /\ pc[2] = "backoff"
    /\ timer[2] > 0
    /\ timer[2] < delay[2]
    /\ sends[2] = 1

====
